---- MODULE Spec2Model ----
(***************************************************************************)
(* Model of the batch job controller (app/services/execution_jobs.py), its *)
(* two HTTP endpoints (app/api/v1/endpoints/prompts.py) and the per-prompt *)
(* orchestration it drives (app/services/execution_service.py).            *)
(*                                                                         *)
(* Scheduling.  Coroutines run on one event-loop thread and give up        *)
(* control only at an await; `busy` names the coroutine that is in the     *)
(* middle of a synchronous stretch.  get_job_status is a plain `def`       *)
(* endpoint: the framework runs it on a worker thread, so it can read a    *)
(* job between any two statements of the loop thread.                      *)
(*                                                                         *)
(* Pure components.  The template renderer (prompt_service.py), the        *)
(* answer analyzers and the visibility score (analysis_service.py) and the *)
(* source extractor (sources/extractor.py) are operators over sequences of *)
(* one-character strings; each has a specification that draws its          *)
(* arguments from a bounded set and applies it once.                       *)
(*                                                                         *)
(* Providers and classifier.  OpenAIProvider.execute (providers.py) and    *)
(* classify_full (nlp/topics_classifier.py) are followed statement by      *)
(* statement, with the API's answers and the failing of a sub-analysis     *)
(* chosen by the environment.                                              *)
(***************************************************************************)
EXTENDS Integers, Sequences, FiniteSets, TLC

\* ---------------------------------------------------------------- bounds
MaxSubmits == 2      \* POST /execute-all requests issued in a run
MaxPrompts == 2      \* active prompts of the largest project
MaxModels == 2       \* active models of a multi-agent prompt

\* ------------------------------------------------------ program constants
SemaphorePermits == 2

NONE == <<"none">>

\* ------------------------------------------------------------ database
\* Three projects.  "empty" holds one inactive prompt only; "mono" holds
\* MaxPrompts active single-model prompts and one inactive prompt; "multi"
\* holds MaxPrompts active prompts that alternate between one model and
\* MaxModels models.
Projects == {"empty", "mono", "multi"}

PromptRows(project) ==
    IF project = "empty"
    THEN <<[is_active |-> FALSE, is_multi_agent |-> FALSE, n_models |-> 1]>>
    ELSE [i \in 1..(MaxPrompts + 1) |->
            [is_active      |-> i <= MaxPrompts,
             is_multi_agent |-> project = "multi" /\ i % 2 = 0,
             n_models       |-> IF project = "multi" /\ i % 2 = 0
                                THEN MaxModels ELSE 1]]

\* [p for p in crud_prompt.get_by_project(...) if p.is_active]
ActivePrompts(project) ==
    {i \in DOMAIN PromptRows(project) : PromptRows(project)[i].is_active}

\* prompt.active_ai_models / [prompt.ai_model]
ModelsOf(project, i) == PromptRows(project)[i].n_models

PromptIds == 1..(MaxPrompts + 1)

VARIABLES
    jobs,       \* ExecutionJobManager.jobs: job id -> ExecutionJob
    runners,    \* the _runner tasks spawned by execute_all_prompts
    items,      \* the run_one coroutines of each runner
    permits,    \* ExecutionJobManager.semaphore value
    orphans,    \* provider calls still pending after their request returned
    busy,       \* coroutine inside a synchronous stretch on the loop thread
    xreq,       \* one execute_prompt_analysis request: the rows it reads
    xpc,        \* where that request stands
    xcalls,     \* its provider calls: model -> pending | ok | failed
    xdone,      \* the models whose call has returned, in completion order
    xi,         \* number of responses analysed and persisted so far
    xdb,        \* rows the request has committed
    xresult,    \* what the request returned
    template,             \* substitute_variables: its template argument
    project_variables,    \* its project_variables argument
    custom_variables,     \* its custom_variables argument, <<>> for None
    substitution_result,  \* what substitute_variables returned
    validation,           \* what validate_template returned
    signals,              \* _calculate_visibility_score: its four analyses
    scored,               \* the score it returned
    ranking_input,        \* _analyze_rankings: the answer and the project
    ranking_analysis,     \* what it returned
    mention_input,        \* the mention analyzers: answer, project, competitors
    mention_analysis,     \* what the three analyzers returned
    source_text,          \* SourceExtractor.extract: its text argument
    extracted,            \* the list it returned
    openai_call,          \* OpenAIProvider.execute: settings and model_id
    openai_pc,            \* where that call stands
    openai_sent,          \* the HTTP requests it has posted, in order
    openai_result,        \* what it returned
    occurrences,          \* classify_full: what the cleaned text contains
    classify_pc,          \* the sub-analysis classify_full is about to run
    analysed,             \* the sub-analysis results it holds so far
    classification        \* what classify_full returned

jobVars == <<jobs, runners, items, permits, orphans, busy>>

execVars == <<xreq, xpc, xcalls, xdone, xi, xdb, xresult>>

renderVars == <<template, project_variables, custom_variables,
                substitution_result, validation>>

scoreVars == <<signals, scored>>

rankVars == <<ranking_input, ranking_analysis>>

mentionVars == <<mention_input, mention_analysis>>

sourceVars == <<source_text, extracted>>

openaiVars == <<openai_call, openai_pc, openai_sent, openai_result>>

classifyVars == <<occurrences, classify_pc, analysed, classification>>

pureVars == <<renderVars, scoreVars, rankVars, mentionVars, sourceVars,
              openaiVars, classifyVars>>

vars == <<jobVars, execVars, pureVars>>

\* ------------------------------------------------------------ ExecutionJob
NewJob ==
    [status          |-> "queued",
     total_items     |-> 0,
     processed_items |-> 0,
     success_count   |-> 0,
     error_count     |-> 0,
     errors          |-> <<>>,
     results         |-> <<>>]

NoItem == [pc |-> "none", outcome |-> "none", pending |-> 0]

JobIds == 1..Len(jobs)
RunnerIds == 1..Len(runners)

EmptyDb == [analyses |-> <<>>, execution_count |-> 0]

JobInit ==
    /\ jobs = <<>>
    /\ runners = <<>>
    /\ items = [r \in 1..MaxSubmits |-> [i \in PromptIds |-> NoItem]]
    /\ permits = SemaphorePermits
    /\ orphans = 0
    /\ busy = NONE

\* No single request is being followed.
ExecIdle ==
    /\ xreq = NONE
    /\ xpc = "idle"
    /\ xcalls = <<>>
    /\ xdone = <<>>
    /\ xi = 0
    /\ xdb = EmptyDb
    /\ xresult = NONE

\* The result of a call that has not been made.
NotCalled == [error |-> "not called"]

\* No rendering call is being followed.
RenderIdle ==
    /\ template = NONE
    /\ project_variables = NONE
    /\ custom_variables = NONE
    /\ substitution_result = NotCalled
    /\ validation = NotCalled

ScoreIdle == signals = NONE /\ scored = NotCalled

RankingIdle == ranking_input = NONE /\ ranking_analysis = NotCalled

MentionIdle == mention_input = NONE /\ mention_analysis = NotCalled

SourceIdle == source_text = NONE /\ extracted = NotCalled

OpenAIIdle ==
    /\ openai_call = NONE
    /\ openai_pc = "idle"
    /\ openai_sent = <<>>
    /\ openai_result = NotCalled

ClassifyIdle ==
    /\ occurrences = NONE
    /\ classify_pc = "idle"
    /\ analysed = NONE
    /\ classification = NotCalled

PureIdle ==
    /\ RenderIdle /\ ScoreIdle /\ RankingIdle /\ MentionIdle /\ SourceIdle
    /\ OpenAIIdle /\ ClassifyIdle

Init == JobInit /\ ExecIdle /\ PureIdle

\* ------------------------------------------------- asyncio.Semaphore(2)
\* Variant: the guard is never consulted.
CanAcquireAlways(value) == TRUE

\* Semaphore.acquire proceeds only while the value is positive.
CanAcquire(value) == value > 0

\* Variant: the permit is taken without being counted.
AcquireUncounted(value) == value

Acquire(value) == value - 1

\* Variant: the permit is not given back.
ReleaseNothing(value) == value

Release(value) == value + 1

\* ------------------------------------------------------------- endpoints
\* POST /execute-all: create_job(), create_task(_runner()), return the
\* created job's id.
Submit(project) ==
    /\ busy = NONE
    /\ Len(runners) < MaxSubmits
    /\ jobs' = Append(jobs, NewJob)
    /\ runners' = Append(runners,
                         [project |-> project,
                          handle  |-> Len(jobs) + 1,
                          job     |-> 0,
                          pc      |-> "spawned"])
    /\ UNCHANGED <<items, permits, orphans, busy, execVars, pureVars>>

\* GET /jobs/{job_id}: the JobStatus built from the job's fields, or 404.
\* The handler only reads; it runs on a worker thread, so it may be
\* evaluated in any state.
get_job_status(j) ==
    IF j \in JobIds
    THEN [job_id          |-> j,
          status          |-> jobs[j].status,
          total_items     |-> jobs[j].total_items,
          processed_items |-> jobs[j].processed_items,
          success_count   |-> jobs[j].success_count,
          error_count     |-> jobs[j].error_count,
          errors          |-> jobs[j].errors,
          results         |-> jobs[j].results]
    ELSE [job_id |-> j, status |-> "404"]

\* ------------------------------------------------- run_project_prompts
\* job = self.create_job()
RunnerCreateJob(r) ==
    /\ busy = NONE
    /\ runners[r].pc = "spawned"
    /\ jobs' = Append(jobs, NewJob)
    /\ runners' = [runners EXCEPT ![r].job = Len(jobs) + 1, ![r].pc = "created"]
    /\ busy' = <<"runner", r>>
    /\ UNCHANGED <<items, permits, orphans, execVars, pureVars>>

\* job.status = 'running'
StartedJob(job) == [job EXCEPT !.status = "running"]

RunnerSetRunning(r) ==
    /\ busy = <<"runner", r>>
    /\ runners[r].pc = "created"
    /\ jobs' = [jobs EXCEPT ![runners[r].job] = StartedJob(@)]
    /\ runners' = [runners EXCEPT ![r].pc = "started"]
    /\ UNCHANGED <<items, permits, orphans, busy, execVars, pureVars>>

\* Variant: a failure to load the prompts marks the job failed.
RunnerLoadMarksFailed(r) ==
    /\ busy = <<"runner", r>>
    /\ runners[r].pc = "started"
    /\ \E loaded \in BOOLEAN :
         IF loaded
         THEN /\ jobs' = [jobs EXCEPT ![runners[r].job].total_items =
                              Cardinality(ActivePrompts(runners[r].project))]
              /\ runners' = [runners EXCEPT ![r].pc = "loaded"]
              /\ UNCHANGED busy
         ELSE /\ jobs' = [jobs EXCEPT ![runners[r].job].status = "failed"]
              /\ runners' = [runners EXCEPT ![r].pc = "crashed"]
              /\ busy' = NONE
    /\ UNCHANGED <<items, permits, orphans, execVars, pureVars>>

\* prompts = [...]; job.total_items = len(prompts).  The query may raise:
\* the finally clause closes the session and the exception ends the task.
RunnerLoad(r) ==
    /\ busy = <<"runner", r>>
    /\ runners[r].pc = "started"
    /\ \E loaded \in BOOLEAN :
         IF loaded
         THEN /\ jobs' = [jobs EXCEPT ![runners[r].job].total_items =
                              Cardinality(ActivePrompts(runners[r].project))]
              /\ runners' = [runners EXCEPT ![r].pc = "loaded"]
              /\ UNCHANGED busy
         ELSE /\ runners' = [runners EXCEPT ![r].pc = "crashed"]
              /\ busy' = NONE
              /\ UNCHANGED jobs
    /\ UNCHANGED <<items, permits, orphans, execVars, pureVars>>

\* Variant: a batch whose items all failed is marked failed.
CompletedOrFailedJob(job) ==
    IF job.total_items > 0 /\ job.error_count = job.total_items
    THEN [job EXCEPT !.status = "failed"]
    ELSE [job EXCEPT !.status = "completed"]

\* job.status = 'completed'
CompletedJob(job) == [job EXCEPT !.status = "completed"]

\* if job.total_items == 0: job.status = 'completed'; return job
RunnerCompleteEmpty(r) ==
    /\ busy = <<"runner", r>>
    /\ runners[r].pc = "loaded"
    /\ jobs[runners[r].job].total_items = 0
    /\ jobs' = [jobs EXCEPT ![runners[r].job] = CompletedJob(@)]
    /\ runners' = [runners EXCEPT ![r].pc = "done"]
    /\ busy' = NONE
    /\ UNCHANGED <<items, permits, orphans, execVars, pureVars>>

\* await asyncio.gather(*(run_one(p.id) for p in prompts)): one run_one
\* task per active prompt, each first waiting for the semaphore.
RunnerGather(r) ==
    /\ busy = <<"runner", r>>
    /\ runners[r].pc = "loaded"
    /\ jobs[runners[r].job].total_items > 0
    /\ items' = [items EXCEPT ![r] =
                   [i \in PromptIds |->
                      IF i \in ActivePrompts(runners[r].project)
                      THEN [pc |-> "waiting", outcome |-> "none", pending |-> 0]
                      ELSE NoItem]]
    /\ runners' = [runners EXCEPT ![r].pc = "gathering"]
    /\ busy' = NONE
    /\ UNCHANGED <<jobs, permits, orphans, execVars, pureVars>>

ItemsOf(r) == {i \in PromptIds : items[r][i].pc # "none"}

\* Variant: gather gives up as soon as one item has failed.
GatherDoneOrFailed(r) ==
    \/ \A i \in ItemsOf(r) : items[r][i].pc = "done"
    \/ \E i \in ItemsOf(r) :
          items[r][i].pc = "done" /\ items[r][i].outcome # "success"

\* gather returns once every run_one has finished.
GatherDone(r) == \A i \in ItemsOf(r) : items[r][i].pc = "done"

\* job.status = 'completed'; job.finished_at = ...; return job
RunnerComplete(r) ==
    /\ busy = NONE
    /\ runners[r].pc = "gathering"
    /\ GatherDone(r)
    /\ jobs' = [jobs EXCEPT ![runners[r].job] = CompletedJob(@)]
    /\ runners' = [runners EXCEPT ![r].pc = "done"]
    /\ UNCHANGED <<items, permits, orphans, busy, execVars, pureVars>>

\* ------------------------------------------------------------- run_one
JobOf(r) == runners[r].job

HoldsPermit(r, i) ==
    items[r][i].pc \in {"calling", "returned", "appended", "counted", "logged"}

\* Prompt executions in flight: run_one coroutines inside `async with`.
InFlight ==
    {ri \in RunnerIds \X PromptIds : HoldsPermit(ri[1], ri[2])}

\* db = db_factory(): run_project_prompts opens one session, and run_one
\* hands that session to the execution of every prompt of the batch.
SessionOf(r, i) == <<"session", r>>

\* Executions in progress: execute_prompt_analysis(db, prompt_id) awaited.
Executing ==
    {ri \in RunnerIds \X PromptIds : items[ri[1]][ri[2]].pc = "calling"}

\* async with self.semaphore: ... await execute_prompt_analysis(db, prompt_id)
\* up to its first await.  The request fails before any provider call when
\* validation or rendering fails ("invalid"); when the prompt row is gone,
\* the error handler itself raises and the exception reaches run_one
\* ("raised"); otherwise one provider call per selected model is issued.
StartExecution(r, i) ==
    /\ busy = NONE
    /\ items[r][i].pc = "waiting"
    /\ CanAcquire(permits)
    /\ permits' = Acquire(permits)
    /\ \E path \in {"calls", "invalid", "raised"} :
         CASE path = "calls" ->
                /\ items' = [items EXCEPT ![r][i] =
                               [pc |-> "calling", outcome |-> "none",
                                pending |-> ModelsOf(runners[r].project, i)]]
                /\ UNCHANGED busy
           [] path = "invalid" ->
                /\ items' = [items EXCEPT ![r][i] =
                               [pc |-> "returned", outcome |-> "failure",
                                pending |-> 0]]
                /\ busy' = <<"item", r, i>>
           [] path = "raised" ->
                /\ items' = [items EXCEPT ![r][i] =
                               [pc |-> "returned", outcome |-> "raised",
                                pending |-> 0]]
                /\ busy' = <<"item", r, i>>
    /\ UNCHANGED <<jobs, runners, orphans, execVars, pureVars>>

\* One provider call of the request returns.  A failed call raises out of
\* gather at once: the request returns a failure result while its other
\* calls stay pending.  When the last call succeeds the responses are
\* analysed and persisted, which succeeds or raises inside the request.
ProviderReturns(r, i, ok) ==
    /\ busy = NONE
    /\ items[r][i].pc = "calling"
    /\ items[r][i].pending > 0
    /\ IF ~ok
       THEN /\ items' = [items EXCEPT ![r][i] =
                           [pc |-> "returned", outcome |-> "failure",
                            pending |-> 0]]
            /\ orphans' = orphans + items[r][i].pending - 1
            /\ busy' = <<"item", r, i>>
       ELSE IF items[r][i].pending > 1
       THEN /\ items' = [items EXCEPT ![r][i].pending = @ - 1]
            /\ UNCHANGED <<orphans, busy>>
       ELSE /\ \E persisted \in BOOLEAN :
                 items' = [items EXCEPT ![r][i] =
                             [pc |-> "returned",
                              outcome |-> IF persisted THEN "success"
                                          ELSE "failure",
                              pending |-> 0]]
            /\ busy' = <<"item", r, i>>
            /\ UNCHANGED orphans
    /\ UNCHANGED <<jobs, runners, permits, execVars, pureVars>>

\* A provider call whose request has already returned comes back.
OrphanReturns ==
    /\ busy = NONE
    /\ orphans > 0
    /\ orphans' = orphans - 1
    /\ UNCHANGED <<jobs, runners, items, permits, busy, execVars, pureVars>>

\* job.results.append({'prompt_id': ..., 'success': result.get('success')})
AppendResult(r, i) ==
    /\ busy = <<"item", r, i>>
    /\ items[r][i].pc = "returned"
    /\ items[r][i].outcome # "raised"
    /\ jobs' = [jobs EXCEPT ![JobOf(r)].results =
                  Append(@, [prompt_id |-> i,
                             success |-> items[r][i].outcome = "success"])]
    /\ items' = [items EXCEPT ![r][i].pc = "appended"]
    /\ UNCHANGED <<runners, permits, orphans, busy, execVars, pureVars>>

\* job.success_count += 1   |   job.error_count += 1  (else and except)
Counted(job, outcome) ==
    IF outcome = "success"
    THEN [job EXCEPT !.success_count = @ + 1]
    ELSE [job EXCEPT !.error_count = @ + 1]

CountOutcome(r, i) ==
    /\ busy = <<"item", r, i>>
    /\ \/ items[r][i].pc = "appended"
       \/ items[r][i].pc = "returned" /\ items[r][i].outcome = "raised"
    /\ jobs' = [jobs EXCEPT ![JobOf(r)] = Counted(@, items[r][i].outcome)]
    /\ items' = [items EXCEPT ![r][i].pc = "counted"]
    /\ UNCHANGED <<runners, permits, orphans, busy, execVars, pureVars>>

\* job.errors.append(result.get('error') or 'unknown error')
\* job.errors.append(str(e))
ErrorText(outcome) ==
    IF outcome = "raised" THEN "exception" ELSE "error"

Logged(job, outcome) == [job EXCEPT !.errors = Append(@, ErrorText(outcome))]

LogError(r, i) ==
    /\ busy = <<"item", r, i>>
    /\ items[r][i].pc = "counted"
    /\ items[r][i].outcome # "success"
    /\ jobs' = [jobs EXCEPT ![JobOf(r)] = Logged(@, items[r][i].outcome)]
    /\ items' = [items EXCEPT ![r][i].pc = "logged"]
    /\ UNCHANGED <<runners, permits, orphans, busy, execVars, pureVars>>

\* Variant: the increment sits in the try body, so an exception skips it.
ProcessedUnlessRaised(job, outcome) ==
    IF outcome = "raised" THEN job
    ELSE [job EXCEPT !.processed_items = @ + 1]

\* Variant: the success path increments as well as the finally clause.
ProcessedTwiceOnSuccess(job, outcome) ==
    IF outcome = "success" THEN [job EXCEPT !.processed_items = @ + 2]
    ELSE [job EXCEPT !.processed_items = @ + 1]

\* finally: job.processed_items += 1
Processed(job, outcome) == [job EXCEPT !.processed_items = @ + 1]

\* Variant: the permit is given back only after a successful execution.
FinishItemKeepsPermitOnError(r, i) ==
    /\ busy = <<"item", r, i>>
    /\ \/ items[r][i].pc = "logged"
       \/ items[r][i].pc = "counted" /\ items[r][i].outcome = "success"
    /\ jobs' = [jobs EXCEPT ![JobOf(r)] = Processed(@, items[r][i].outcome)]
    /\ items' = [items EXCEPT ![r][i].pc = "done"]
    /\ permits' = IF items[r][i].outcome = "success"
                  THEN Release(permits) ELSE permits
    /\ busy' = NONE
    /\ UNCHANGED <<runners, orphans, execVars, pureVars>>

\* The finally clause, then the exit of `async with` releases the permit.
FinishItem(r, i) ==
    /\ busy = <<"item", r, i>>
    /\ \/ items[r][i].pc = "logged"
       \/ items[r][i].pc = "counted" /\ items[r][i].outcome = "success"
    /\ jobs' = [jobs EXCEPT ![JobOf(r)] = Processed(@, items[r][i].outcome)]
    /\ items' = [items EXCEPT ![r][i].pc = "done"]
    /\ permits' = Release(permits)
    /\ busy' = NONE
    /\ UNCHANGED <<runners, orphans, execVars, pureVars>>

\* ------------------------------------------------------- specification
\* Every step taken by the event loop once requests have been accepted.
Progress ==
    \/ \E r \in RunnerIds : RunnerCreateJob(r)
    \/ \E r \in RunnerIds : RunnerSetRunning(r)
    \/ \E r \in RunnerIds : RunnerLoad(r)
    \/ \E r \in RunnerIds : RunnerCompleteEmpty(r)
    \/ \E r \in RunnerIds : RunnerGather(r)
    \/ \E r \in RunnerIds : RunnerComplete(r)
    \/ \E r \in RunnerIds : \E i \in PromptIds : StartExecution(r, i)
    \/ \E r \in RunnerIds : \E i \in PromptIds :
          \E ok \in BOOLEAN : ProviderReturns(r, i, ok)
    \/ \E r \in RunnerIds : \E i \in PromptIds : AppendResult(r, i)
    \/ \E r \in RunnerIds : \E i \in PromptIds : CountOutcome(r, i)
    \/ \E r \in RunnerIds : \E i \in PromptIds : LogError(r, i)
    \/ \E r \in RunnerIds : \E i \in PromptIds : FinishItem(r, i)
    \/ OrphanReturns

Next ==
    \/ \E project \in Projects : Submit(project)
    \/ Progress

Spec == Init /\ [][Next]_vars

\* The event loop keeps running ready coroutines and every provider call
\* returns.
FairSpec == Spec /\ WF_vars(Progress)

\* ============================================ execute_prompt_analysis
\* One request, followed statement by statement.  The rows it reads are
\* fixed when it starts: whether the prompt exists and is active, whether
\* it is multi-agent, the state of its single model, how many models of its
\* multi-agent list are active (ids 1..n), the caller's compare_models and
\* ai_model_ids, and whether the template renders.
\* ai_model_ids: {} stands for None or an empty list (both falsy).
ModelIdSets == {{}, {1}, {MaxModels}, {MaxModels + 1}}

Requests ==
    [exists          : BOOLEAN,
     is_active       : BOOLEAN,
     is_multi_agent  : BOOLEAN,
     ai_model        : {"none", "active", "inactive"},
     n_active_models : 0..MaxModels,
     compare_models  : BOOLEAN,
     ai_model_ids    : ModelIdSets,
     render_ok       : BOOLEAN]

\* Prompt.active_ai_models
active_ai_models(req) ==
    IF ~req.is_multi_agent
    THEN IF req.ai_model # "none" THEN <<1>> ELSE <<>>
    ELSE [k \in 1..req.n_active_models |-> k]

Requested(req, m) == req.ai_model_ids = {} \/ m \in req.ai_model_ids

\* Step 2 of the request: the models to call, <<>> when the step raises.
SelectedModels(req) ==
    IF req.is_multi_agent \/ req.compare_models
    THEN SelectSeq(active_ai_models(req), LAMBDA m : Requested(req, m))
    ELSE IF req.ai_model = "active" THEN <<1>> ELSE <<>>

\* Variant: ai_service hands any model to its provider.
CallableWhateverState(req, m) == TRUE

\* ai_service.execute_prompt refuses an inactive model.
ModelCallable(req, m) == req.is_multi_agent \/ req.ai_model = "active"

Failure == [success |-> FALSE, analyses |-> <<>>]

\* Everything up to the first await: steps 1 to 3, then one run_model per
\* selected model handed to gather.  A missing prompt makes the error
\* handler itself raise (prompt.name on None).
XStart ==
    /\ xpc = "start"
    /\ IF ~xreq.exists
       THEN /\ xpc' = "raised"
            /\ UNCHANGED <<xcalls, xresult>>
       ELSE IF \/ ~xreq.is_active
               \/ SelectedModels(xreq) = <<>>
               \/ ~xreq.render_ok
       THEN /\ xpc' = "returned"
            /\ xresult' = Failure
            /\ UNCHANGED xcalls
       ELSE /\ xpc' = "calling"
            /\ xcalls' = [m \in {SelectedModels(xreq)[k] :
                                   k \in 1..Len(SelectedModels(xreq))}
                            |-> "pending"]
            /\ UNCHANGED xresult
    /\ UNCHANGED <<xreq, xdone, xi, xdb, jobVars, pureVars>>

\* ai_service.execute_prompt returns for one model; run_model raises when
\* the result is not a success.  Calls outlive a request that has returned.
XProviderReturns(m, ok) ==
    /\ m \in DOMAIN xcalls
    /\ xcalls[m] = "pending"
    /\ ok => ModelCallable(xreq, m)
    /\ xcalls' = [xcalls EXCEPT ![m] = IF ok THEN "ok" ELSE "failed"]
    /\ xdone' = Append(xdone, m)
    /\ UNCHANGED <<xreq, xpc, xi, xdb, xresult, jobVars, pureVars>>

\* Variant: gather collects every outcome and the failed ones are dropped.
GatherCollectsAll(calls) ==
    IF \E m \in DOMAIN calls : calls[m] = "pending" THEN "pending"
    ELSE "results"

\* await asyncio.gather(*[run_model(m) for m in ai_models]): the first
\* exception is raised to the awaiting request; otherwise the results come
\* back once every call has returned.
GatherOutcome(calls) ==
    IF \E m \in DOMAIN calls : calls[m] = "failed" THEN "raise"
    ELSE IF \E m \in DOMAIN calls : calls[m] = "pending" THEN "pending"
    ELSE "results"

\* The exception of a failed call reaches the handler: success False.
XGatherRaises ==
    /\ xpc = "calling"
    /\ GatherOutcome(xcalls) = "raise"
    /\ xpc' = "returned"
    /\ xresult' = Failure
    /\ UNCHANGED <<xreq, xcalls, xdone, xi, xdb, jobVars, pureVars>>

XGatherReturns ==
    /\ xpc = "calling"
    /\ GatherOutcome(xcalls) = "results"
    /\ xpc' = "persisting"
    /\ UNCHANGED <<xreq, xcalls, xdone, xi, xdb, xresult, jobVars, pureVars>>

\* Variant: the results come back in the order the calls completed.
AiResultsAsCompleted == SelectSeq(xdone, LAMBDA m : xcalls[m] = "ok")

\* ai_results, in the order of ai_models.
AiResults == SelectSeq(SelectedModels(xreq), LAMBDA m : xcalls[m] = "ok")

\* One turn of `for ai_result in ai_results`: analyse, then
\* create_with_competitors commits the analysis row; either may raise.
XPersist(ok) ==
    /\ xpc = "persisting"
    /\ xi < Len(AiResults)
    /\ IF ok
       THEN /\ xdb' = [xdb EXCEPT !.analyses =
                         Append(@, [model |-> AiResults[xi + 1]])]
            /\ xi' = xi + 1
            /\ UNCHANGED <<xpc, xresult>>
       ELSE /\ xpc' = "returned"
            /\ xresult' = Failure
            /\ UNCHANGED <<xdb, xi>>
    /\ UNCHANGED <<xreq, xcalls, xdone, jobVars, pureVars>>

\* Variant: the counter advances by one per analysis created.
XIncrementPerAnalysis(ok) ==
    /\ xpc = "persisting"
    /\ xi = Len(AiResults)
    /\ xpc' = "returned"
    /\ IF ok
       THEN /\ xdb' = [xdb EXCEPT !.execution_count = @ + xi]
            /\ xresult' = [success |-> TRUE,
                           analyses |-> [k \in 1..xi |-> AiResults[k]]]
       ELSE /\ xresult' = Failure
            /\ UNCHANGED xdb
    /\ UNCHANGED <<xreq, xcalls, xdone, xi, jobVars, pureVars>>

\* crud_prompt.increment_execution_count commits, then the result is built
\* from created_analyses.
XIncrement(ok) ==
    /\ xpc = "persisting"
    /\ xi = Len(AiResults)
    /\ xpc' = "returned"
    /\ IF ok
       THEN /\ xdb' = [xdb EXCEPT !.execution_count = @ + 1]
            /\ xresult' = [success |-> TRUE,
                           analyses |-> [k \in 1..xi |-> AiResults[k]]]
       ELSE /\ xresult' = Failure
            /\ UNCHANGED xdb
    /\ UNCHANGED <<xreq, xcalls, xdone, xi, jobVars, pureVars>>

ExecInit ==
    /\ JobInit
    /\ PureIdle
    /\ xreq \in Requests
    /\ xpc = "start"
    /\ xcalls = <<>>
    /\ xdone = <<>>
    /\ xi = 0
    /\ xdb = EmptyDb
    /\ xresult = NONE

NextExec ==
    \/ XStart
    \/ \E m \in 1..MaxModels : \E ok \in BOOLEAN : XProviderReturns(m, ok)
    \/ XGatherRaises
    \/ XGatherReturns
    \/ \E ok \in BOOLEAN : XPersist(ok)
    \/ \E ok \in BOOLEAN : XIncrement(ok)

SpecExec == ExecInit /\ [][NextExec]_vars

\* ======================================================= prompt_service
\* Strings are sequences of one-character strings over this alphabet.
Letter == {"a", "b"}
Digit == {"1"}

\* Templates are up to MaxPieces pieces laid end to end.
MaxPieces == 3

Pieces ==
    {<<"{", "a", "}">>, <<"{", "b", "}">>, <<"{", "}">>, <<"{", "1", "}">>,
     <<"{">>, <<"a">>}

RECURSIVE Joined(_)
Joined(n) ==
    IF n = 0 THEN {<<>>}
    ELSE Joined(n - 1) \cup {t \o q : t \in Joined(n - 1), q \in Pieces}

Templates == Joined(MaxPieces)

Names == {<<"a">>, <<"b">>}

Values == {<<"1">>, <<"{", "b", "}">>}

\* Dict[str, str] over the names.
VarMaps == UNION {[S -> Values] : S \in SUBSET Names}

\* [a-zA-Z_][a-zA-Z0-9_]*
IsIdentifier(s) ==
    /\ Len(s) > 0
    /\ s[1] \in Letter
    /\ \A k \in 2..Len(s) : s[k] \in Letter \cup Digit

\* set(self.variable_pattern.findall(template))
extract_variables(t) ==
    {SubSeq(t, i + 1, j - 1) : <<i, j>> \in
        {p \in (1..Len(t)) \X (1..Len(t)) :
            /\ p[1] < p[2]
            /\ t[p[1]] = "{"
            /\ t[p[2]] = "}"
            /\ IsIdentifier(SubSeq(t, p[1] + 1, p[2] - 1))}}

\* template.count(c)
Count(t, c) == Cardinality({i \in 1..Len(t) : t[i] = c})

\* re.findall(r'\{[^a-zA-Z_][^}]*\}', template) is not empty
HasMalformedVars(t) ==
    \E i \in 1..Len(t) : \E j \in (i + 2)..Len(t) :
        /\ t[i] = "{"
        /\ t[i + 1] \notin Letter
        /\ t[j] = "}"
        /\ \A k \in (i + 2)..(j - 1) : t[k] # "}"

\* The alphabet has no white space: template.strip() is empty only for "".
validate_template(t) ==
    IF Len(t) = 0
    THEN [valid |-> FALSE, error |-> "empty", variables |-> {}]
    ELSE IF HasMalformedVars(t)
    THEN [valid |-> FALSE, error |-> "malformed",
          variables |-> extract_variables(t)]
    ELSE IF Count(t, "{") # Count(t, "}")
    THEN [valid |-> FALSE, error |-> "unbalanced",
          variables |-> extract_variables(t)]
    ELSE [valid |-> TRUE, error |-> "none",
          variables |-> extract_variables(t)]

\* Variant: the project value wins and custom names are not added.
AllVariablesProjectOnly(project, custom) == project

\* all_variables = project_variables.copy(); all_variables.update(custom)
AllVariables(project, custom) ==
    [n \in DOMAIN project \cup DOMAIN custom |->
        IF n \in DOMAIN custom THEN custom[n] ELSE project[n]]

StartsWith(s, prefix) ==
    Len(s) >= Len(prefix) /\ SubSeq(s, 1, Len(prefix)) = prefix

\* str.replace(old, new): every non-overlapping occurrence, left to right.
RECURSIVE Replace(_, _, _)
Replace(s, old, new) ==
    IF Len(s) < Len(old) THEN s
    ELSE IF StartsWith(s, old)
    THEN new \o Replace(SubSeq(s, Len(old) + 1, Len(s)), old, new)
    ELSE <<Head(s)>> \o Replace(Tail(s), old, new)

\* The orders in which `for var_name in required_vars` may walk the set.
Orders(S) ==
    {o \in [1..Cardinality(S) -> S] :
        \A a \in DOMAIN o : \A b \in DOMAIN o : o[a] = o[b] => a = b}

\* The substitution loop: one replace per variable, each on the output of
\* the one before.
RECURSIVE ReplaceEach(_, _, _)
ReplaceEach(prompt, all, order) ==
    IF order = <<>> THEN prompt
    ELSE ReplaceEach(
            Replace(prompt, <<"{">> \o Head(order) \o <<"}">>, all[Head(order)]),
            all, Tail(order))

substitute_variables(t, project, custom, order) ==
    LET all_variables == AllVariables(project, custom)
        required_vars == extract_variables(t)
        missing_vars  == required_vars \ DOMAIN all_variables
    IN  IF missing_vars # {}
        THEN [success           |-> FALSE,
              error             |-> "missing",
              prompt            |-> t,
              variables_used    |-> <<>>,
              missing_variables |-> missing_vars]
        ELSE [success           |-> TRUE,
              error             |-> "none",
              prompt            |-> ReplaceEach(t, all_variables, order),
              variables_used    |-> [n \in required_vars |-> all_variables[n]],
              missing_variables |-> {}]

\* One call of substitute_variables; the set required_vars is walked in an
\* order the caller does not control.
Substitute ==
    /\ substitution_result = NotCalled
    /\ \E order \in Orders(extract_variables(template)) :
          substitution_result' =
              substitute_variables(template, project_variables,
                                   custom_variables, order)
    /\ UNCHANGED <<template, project_variables, custom_variables, validation,
                   jobVars, execVars, scoreVars, rankVars, mentionVars,
                   sourceVars,
                   openaiVars, classifyVars>>

\* One call of validate_template.
Validate ==
    /\ validation = NotCalled
    /\ validation' = validate_template(template)
    /\ UNCHANGED <<template, project_variables, custom_variables,
                   substitution_result, jobVars, execVars, scoreVars,
                   rankVars, mentionVars, sourceVars,
                   openaiVars, classifyVars>>

RenderInit ==
    /\ JobInit
    /\ ExecIdle
    /\ template \in Templates
    /\ project_variables \in VarMaps
    /\ custom_variables \in VarMaps
    /\ substitution_result = NotCalled
    /\ validation = NotCalled
    /\ ScoreIdle
    /\ RankingIdle
    /\ MentionIdle
    /\ SourceIdle
    /\ OpenAIIdle
    /\ ClassifyIdle

NextRender == Substitute \/ Validate

SpecRender == RenderInit /\ [][NextRender]_vars


\* ===================================== analysis_service: visibility score
\* ranking_analysis['position'] is None
NoPosition == -1

\* Ranks above this are skipped by _analyze_rankings.
RankCeiling == 10

\* The positions _analyze_rankings can hand over: int(rank_str) of a run of
\* digits that is not above the ceiling.
Positions == 0..RankCeiling

Signals ==
    [brand_mentioned   : BOOLEAN,
     website_mentioned : BOOLEAN,
     website_linked    : BOOLEAN,
     position          : {NoPosition} \cup Positions]

Min(a, b) == IF a <= b THEN a ELSE b

\* Variant: a top-3 position earns the full bonus.
calculate_visibility_score_flat_top3(s) ==
    Min(100,
        (IF s.brand_mentioned THEN 30 ELSE 0)
        + (IF s.website_mentioned THEN 25 ELSE 0)
        + (IF s.website_linked THEN 35 ELSE 0)
        + (IF s.position = NoPosition THEN 0
           ELSE IF s.position <= 3 THEN 10
           ELSE IF s.position <= 5 THEN 5
           ELSE IF s.position <= 10 THEN 3
           ELSE 1))

\* _calculate_visibility_score; the sums are whole numbers below 2^53, so
\* the float arithmetic is exact.
calculate_visibility_score(s) ==
    Min(100,
        (IF s.brand_mentioned THEN 30 ELSE 0)
        + (IF s.website_mentioned THEN 25 ELSE 0)
        + (IF s.website_linked THEN 35 ELSE 0)
        + (IF s.position = NoPosition THEN 0
           ELSE IF s.position = 1 THEN 10
           ELSE IF s.position <= 3 THEN 7
           ELSE IF s.position <= 5 THEN 5
           ELSE IF s.position <= 10 THEN 3
           ELSE 1))

CalculateScore ==
    /\ scored = NotCalled
    /\ scored' = [visibility_score |-> calculate_visibility_score(signals)]
    /\ UNCHANGED <<signals, jobVars, execVars, renderVars, rankVars,
                   mentionVars, sourceVars,
                   openaiVars, classifyVars>>

ScoreInit ==
    /\ JobInit
    /\ ExecIdle
    /\ RenderIdle
    /\ signals \in Signals
    /\ scored = NotCalled
    /\ RankingIdle
    /\ MentionIdle
    /\ SourceIdle
    /\ OpenAIIdle
    /\ ClassifyIdle

NextScore == CalculateScore

SpecScore == ScoreInit /\ [][NextScore]_vars

\* =========================================== analysis_service: rankings
\* Answers are sequences of one-character strings.  The classes below are
\* \d, \s and \w cut down to the characters the answers are built from.
IsDigit(c) == c \in {"0", "1"}

IsSpace(c) == c \in {" ", "\n"}

IsWord(c) ==
    \/ IsDigit(c)
    \/ c \in {"a", "b", "c", "e", "f", "h", "n", "o", "p", "r", "s", "t", "u",
             "x", "y", "A", "R", "S", "T", "_"}

\* str.lower()
LowerChar(c) ==
    CASE c = "A" -> "a"
      [] c = "R" -> "r"
      [] c = "S" -> "s"
      [] c = "T" -> "t"
      [] OTHER -> c

LowerStr(s) == [i \in 1..Len(s) |-> LowerChar(s[i])]

\* sub in s
Contains(s, sub) ==
    \E i \in 0..(Len(s) - Len(sub)) : SubSeq(s, i + 1, i + Len(sub)) = sub

\* str.strip()
RECURSIVE Strip(_)
Strip(s) ==
    IF s = <<>> THEN s
    ELSE IF IsSpace(Head(s)) THEN Strip(Tail(s))
    ELSE IF IsSpace(s[Len(s)]) THEN Strip(SubSeq(s, 1, Len(s) - 1))
    ELSE s

HTTP == <<"h", "t", "t", "p", ":", "/", "/">>

HTTPS == <<"h", "t", "t", "p", "s", ":", "/", "/">>

\* Length of the https?:// that starts at index i of s, 0 when none does.
SchemeLen(s, i) ==
    IF StartsWith(SubSeq(s, i, Len(s)), HTTP) THEN Len(HTTP)
    ELSE IF StartsWith(SubSeq(s, i, Len(s)), HTTPS) THEN Len(HTTPS)
    ELSE 0

\* self.url_pattern.search(s): https?:// and at least one of [-\w.],
\* letter case ignored.
HasUrl(s) ==
    \E i \in 1..Len(s) :
        /\ SchemeLen(LowerStr(s), i) > 0
        /\ i + SchemeLen(LowerStr(s), i) <= Len(s)
        /\ \/ IsWord(s[i + SchemeLen(LowerStr(s), i)])
           \/ s[i + SchemeLen(LowerStr(s), i)] \in {"-", "."}

\* self.ranking_patterns: the literal before the digits, whether \s* sits
\* between the two, and what may stand between the digits and the item.
ranking_patterns ==
    <<[lead |-> <<>>, lead_space |-> FALSE, sep |-> "dot"],
      [lead |-> <<"#">>, lead_space |-> FALSE, sep |-> "colon"],
      [lead |-> <<>>, lead_space |-> FALSE, sep |-> "paren"],
      [lead |-> <<"t", "o", "p">>, lead_space |-> TRUE, sep |-> "colon"]>>

\* t[a..b] is what the pattern allows between the digits and the item:
\* \.?\s* or [\s:]* or \)\s*
SepOk(pat, t, a, b) ==
    CASE pat.sep = "dot" ->
            \/ \A k \in a..b : IsSpace(t[k])
            \/ a <= b /\ t[a] = "." /\ \A k \in (a + 1)..b : IsSpace(t[k])
      [] pat.sep = "colon" ->
            \A k \in a..b : IsSpace(t[k]) \/ t[k] = ":"
      [] pat.sep = "paren" ->
            a <= b /\ t[a] = ")" /\ \A k \in (a + 1)..b : IsSpace(t[k])

\* Index of the first digit of a match that starts at i, 0 when the lead of
\* the pattern is not at i.  Only `Top` holds letters, and its pattern
\* ignores case.
DigitsFrom(pat, t, i) ==
    IF ~StartsWith(LowerStr(SubSeq(t, i, Len(t))), pat.lead) THEN 0
    ELSE LET j == i + Len(pat.lead)
             stops == {k \in j..Len(t) : ~IsSpace(t[k])}
         IN IF pat.lead_space
            THEN IF stops = {} THEN 0
                 ELSE CHOOSE k \in stops : \A l \in stops : k <= l
            ELSE IF j <= Len(t) THEN j ELSE 0

\* The pairs <<last digit, first character of the item>> with which the
\* pattern matches from i.  `.` matches anything but a newline, so the lazy
\* item then runs to the end of its line.
Fits(pat, t, i) ==
    LET d == DigitsFrom(pat, t, i)
    IN IF d = 0 \/ ~IsDigit(t[d]) THEN {}
       ELSE {p \in (d..Len(t)) \X (d..Len(t)) :
                /\ p[1] < p[2]
                /\ \A k \in d..p[1] : IsDigit(t[k])
                /\ SepOk(pat, t, p[1] + 1, p[2] - 1)
                /\ t[p[2]] # "\n"}

\* The match the regex engine settles on from i: the quantifiers are
\* greedy, so the longest run of digits first, then the longest separator.
MatchAt(pat, t, i) ==
    LET d == DigitsFrom(pat, t, i)
        fits == Fits(pat, t, i)
        best == CHOOSE p \in fits :
                    \A q \in fits :
                        q[1] < p[1] \/ (q[1] = p[1] /\ q[2] <= p[2])
        eol == CHOOSE e \in best[2]..Len(t) :
                    /\ e = Len(t) \/ t[e + 1] = "\n"
                    /\ \A k \in best[2]..(e - 1) : t[k + 1] # "\n"
    IN [rank_str  |-> SubSeq(t, d, best[1]),
        item_text |-> SubSeq(t, best[2], eol),
        end       |-> IF eol < Len(t) THEN eol + 1 ELSE eol]

\* pattern.findall(text): the leftmost match, then on from where it ended.
RECURSIVE FindAll(_, _, _)
FindAll(pat, t, pos) ==
    LET starts == {i \in pos..Len(t) : Fits(pat, t, i) # {}}
    IN IF starts = {} THEN <<>>
       ELSE LET i == CHOOSE k \in starts : \A l \in starts : k <= l
                m == MatchAt(pat, t, i)
            IN <<m>> \o FindAll(pat, t, m.end + 1)

\* int(rank_str)
RECURSIVE ToInt(_)
ToInt(digits) ==
    IF digits = <<>> THEN 0
    ELSE 10 * ToInt(SubSeq(digits, 1, Len(digits) - 1))
         + (IF digits[Len(digits)] = "1" THEN 1 ELSE 0)

\* The test a match has to pass to give the position.
Ranked(m, project_name) ==
    /\ ToInt(m.rank_str) <= RankCeiling
    /\ Contains(LowerStr(m.item_text), project_name)
    /\ HasUrl(m.item_text)

\* _analyze_rankings: the first match, pattern after pattern, that is not
\* above the ceiling, names the project and holds a link.
analyze_rankings(text, name) ==
    LET project_name == LowerStr(name)
        matches == [k \in 1..Len(ranking_patterns) |->
                       FindAll(ranking_patterns[k], text, 1)]
        found == {c \in (1..Len(ranking_patterns)) \X (1..Len(text)) :
                     /\ c[2] <= Len(matches[c[1]])
                     /\ Ranked(matches[c[1]][c[2]], project_name)}
    IN IF found = {}
       THEN [position |-> NoPosition, context |-> <<>>, total_items |-> 0]
       ELSE LET first == CHOOSE c \in found : \A o \in found :
                            c[1] < o[1] \/ (c[1] = o[1] /\ c[2] <= o[2])
            IN [position    |-> ToInt(matches[first[1]][first[2]].rank_str),
                context     |-> Strip(matches[first[1]][first[2]].item_text),
                total_items |-> Len(matches[first[1]])]

\* Answers are up to MaxRankParts of these parts laid end to end.
MaxRankParts == 4

RankParts ==
    {<<"0">>, <<"1">>, <<".", " ">>, <<" ">>, <<"\n">>, <<"a">>,
     HTTP \o <<"x">>, <<"#">>, <<")">>, <<"T", "o", "p">>}

RECURSIVE RankTexts(_)
RankTexts(n) ==
    IF n = 0 THEN {<<>>}
    ELSE RankTexts(n - 1) \cup {t \o q : t \in RankTexts(n - 1), q \in RankParts}

ProjectNames == {<<"a">>, <<"A">>}

AnalyzeRankings ==
    /\ ranking_analysis = NotCalled
    /\ ranking_analysis' =
          analyze_rankings(ranking_input.text, ranking_input.name)
    /\ UNCHANGED <<ranking_input, jobVars, execVars, renderVars, scoreVars,
                   mentionVars, sourceVars,
                   openaiVars, classifyVars>>

RankingInit ==
    /\ JobInit
    /\ ExecIdle
    /\ RenderIdle
    /\ ScoreIdle
    /\ ranking_input \in [text : RankTexts(MaxRankParts), name : ProjectNames]
    /\ ranking_analysis = NotCalled
    /\ MentionIdle
    /\ SourceIdle
    /\ OpenAIIdle
    /\ ClassifyIdle

NextRanking == AnalyzeRankings

SpecRanking == RankingInit /\ [][NextRanking]_vars

\* =========================================== analysis_service: mentions
\* str.find(needle, start), counted from 0; -1 when there is none.
Find(text, needle, start) ==
    LET hits == {p \in start..(Len(text) - Len(needle)) :
                    SubSeq(text, p + 1, p + Len(needle)) = needle}
    IN IF hits = {} THEN -1
       ELSE CHOOSE p \in hits : \A q \in hits : p <= q

\* The `while True` loop of the three analyzers: the positions appended to
\* mentions, the search resuming one character after each hit.
RECURSIVE MentionsFrom(_, _, _)
MentionsFrom(text_lower, needle, start) ==
    LET pos == Find(text_lower, needle, start)
    IN IF pos = -1 THEN <<>>
       ELSE <<pos>> \o MentionsFrom(text_lower, needle, pos + 1)

WWW == <<"w", "w", "w", ".">>

\* urlparse(url).netloc: what lies between the // of the scheme and the
\* next /, ? or #; empty when the address carries no scheme.
Netloc(url) ==
    LET n == IF StartsWith(url, HTTP) THEN Len(HTTP)
             ELSE IF StartsWith(url, HTTPS) THEN Len(HTTPS)
             ELSE 0
        rest == SubSeq(url, n + 1, Len(url))
        cuts == {k \in 1..Len(rest) : rest[k] \in {"/", "?", "#"}}
    IN IF n = 0 THEN <<>>
       ELSE IF cuts = {} THEN rest
       ELSE SubSeq(rest, 1, (CHOOSE k \in cuts : \A l \in cuts : k <= l) - 1)

\* domain = parsed.netloc.lower(), less a leading www.
Domain(main_website) ==
    LET netloc == LowerStr(Netloc(main_website))
    IN IF StartsWith(netloc, WWW)
       THEN SubSeq(netloc, Len(WWW) + 1, Len(netloc))
       ELSE netloc

\* _analyze_brand_mentions
analyze_brand_mentions(text, name) ==
    LET mentions == MentionsFrom(LowerStr(text), LowerStr(name), 0)
    IN [mentioned |-> Len(mentions) > 0, mentions_count |-> Len(mentions)]

\* _analyze_website_mentions; <<>> stands for a project without a website.
analyze_website_mentions(text, main_website) ==
    IF main_website = <<>>
    THEN [mentioned |-> FALSE, mentions_count |-> 0]
    ELSE LET mentions == MentionsFrom(LowerStr(text), Domain(main_website), 0)
         IN [mentioned |-> Len(mentions) > 0, mentions_count |-> Len(mentions)]

\* _analyze_competitors: details[name].mentions_count of the competitors
\* that are mentioned.
analyze_competitors(text, competitors) ==
    LET count(c) == Len(MentionsFrom(LowerStr(text), LowerStr(c), 0))
        found == {k \in 1..Len(competitors) : count(competitors[k]) > 0}
    IN [c \in {competitors[k] : k \in found} |-> count(c)]

\* Answers are texts of up to MaxTextLen of these characters.
MaxTextLen == 3

MentionChars == {"a", "A", "b"}

RECURSIVE TextsUpTo(_)
TextsUpTo(n) ==
    IF n = 0 THEN {<<>>}
    ELSE TextsUpTo(n - 1)
         \cup {Append(t, c) : t \in TextsUpTo(n - 1), c \in MentionChars}

BrandNames == TextsUpTo(2) \ {<<>>}

Websites ==
    {<<>>} \cup {s \o w \o h : s \in {<<>>, HTTP}, w \in {<<>>, WWW},
                               h \in {<<"a">>, <<"a", "a">>}}

CompetitorLists ==
    {<<>>, <<<<"b">>>>, <<<<"A", "b">>>>, <<<<"b">>, <<"b", "b">>>>}

AnalyzeMentions ==
    /\ mention_analysis = NotCalled
    /\ mention_analysis' =
          [brand       |-> analyze_brand_mentions(mention_input.text,
                                                  mention_input.name),
           website     |-> analyze_website_mentions(mention_input.text,
                                                    mention_input.main_website),
           competitors |-> analyze_competitors(mention_input.text,
                                               mention_input.competitors)]
    /\ UNCHANGED <<mention_input, jobVars, execVars, renderVars, scoreVars,
                   rankVars, sourceVars,
                   openaiVars, classifyVars>>

MentionInit ==
    /\ JobInit
    /\ ExecIdle
    /\ RenderIdle
    /\ ScoreIdle
    /\ RankingIdle
    /\ mention_input \in [text         : TextsUpTo(MaxTextLen),
                          name         : BrandNames,
                          main_website : Websites,
                          competitors  : CompetitorLists]
    /\ mention_analysis = NotCalled
    /\ SourceIdle
    /\ OpenAIIdle
    /\ ClassifyIdle

NextMentions == AnalyzeMentions

SpecMentions == MentionInit /\ [][NextMentions]_vars

\* ===================================================== sources/extractor
\* [url, position] of the URL_PATTERN match that starts at index i of t:
\* https?://, letter case ignored, then the longest run of characters
\* other than white space, ) and ].  The URL is the match less its
\* trailing ) . , ; and the position counts from 0.
UrlStops == {" ", "\n", ")", "]"}

RECURSIVE RStripUrl(_)
RStripUrl(s) ==
    IF s # <<>> /\ s[Len(s)] \in {")", ".", ",", ";"}
    THEN RStripUrl(SubSeq(s, 1, Len(s) - 1))
    ELSE s

UrlStartsAt(t, i) ==
    /\ SchemeLen(LowerStr(t), i) > 0
    /\ i + SchemeLen(LowerStr(t), i) <= Len(t)
    /\ t[i + SchemeLen(LowerStr(t), i)] \notin UrlStops

UrlEnd(t, i) ==
    CHOOSE e \in i..Len(t) :
        /\ e >= i + SchemeLen(LowerStr(t), i)
        /\ \A k \in (i + SchemeLen(LowerStr(t), i))..e : t[k] \notin UrlStops
        /\ e = Len(t) \/ t[e + 1] \in UrlStops

\* self.URL_PATTERN.finditer(t), from index pos on.
RECURSIVE UrlMatches(_, _)
UrlMatches(t, pos) ==
    LET starts == {i \in pos..Len(t) : UrlStartsAt(t, i)}
    IN IF starts = {} THEN <<>>
       ELSE LET i == CHOOSE k \in starts : \A l \in starts : k <= l
                e == UrlEnd(t, i)
            IN <<[url      |-> RStripUrl(Strip(SubSeq(t, i, e))),
                  position |-> i - 1]>>
               \o UrlMatches(t, e + 1)

\* First index after i that holds c, 0 when there is none.
NextChar(t, i, c) ==
    LET at == {k \in (i + 1)..Len(t) : t[k] = c}
    IN IF at = {} THEN 0 ELSE CHOOSE k \in at : \A l \in at : k <= l

\* Index of the ) that closes the MD_LINK_PATTERN match starting at i, 0
\* when none starts there: [title](https?://...) with a title free of ]
\* and an address free of ), letter case kept.
MdLinkEnd(t, i) ==
    LET j == NextChar(t, i, "]")
        n == SchemeLen(t, j + 2)
        k == NextChar(t, j + 1 + n, ")")
    IN IF /\ t[i] = "["
          /\ j >= i + 2
          /\ j + 1 <= Len(t)
          /\ t[j + 1] = "("
          /\ n > 0
          /\ k >= j + 3 + n
       THEN k ELSE 0

\* self.MD_LINK_PATTERN.finditer(t), from index pos on: the address and
\* the index of the opening bracket.
RECURSIVE MdMatches(_, _)
MdMatches(t, pos) ==
    LET starts == {i \in pos..Len(t) : MdLinkEnd(t, i) > 0}
    IN IF starts = {} THEN <<>>
       ELSE LET i == CHOOSE k \in starts : \A l \in starts : k <= l
                j == NextChar(t, i, "]")
                k == MdLinkEnd(t, i)
            IN <<[url      |-> Strip(SubSeq(t, j + 2, k - 1)),
                  position |-> i - 1]>>
               \o MdMatches(t, k + 1)

\* Index of the ] that closes the FOOTNOTE_LABEL_PATTERN match at i, 0
\* when none starts there.
FootnoteEnd(t, i) ==
    LET ends == {k \in (i + 2)..Len(t) :
                    /\ t[k] = "]"
                    /\ \A d \in (i + 1)..(k - 1) : IsDigit(t[d])}
    IN IF t[i] = "[" /\ ends # {} THEN CHOOSE k \in ends : TRUE ELSE 0

\* self.FOOTNOTE_LABEL_PATTERN.finditer(t): [m.start(), m.end()] of each.
RECURSIVE FootnoteMatches(_, _)
FootnoteMatches(t, pos) ==
    LET starts == {i \in pos..Len(t) : FootnoteEnd(t, i) > 0}
    IN IF starts = {} THEN <<>>
       ELSE LET i == CHOOSE k \in starts : \A l \in starts : k <= l
            IN <<[start |-> i - 1, end |-> FootnoteEnd(t, i)]>>
               \o FootnoteMatches(t, FootnoteEnd(t, i) + 1)

\* sources.setdefault(url, ...) and `if url not in sources: sources[url] =`
\* alike: the first entry of a URL stays.  The dict keeps insertion order.
AddSource(srcs, found) ==
    IF \E k \in 1..Len(srcs) : srcs[k].url = found.url THEN srcs
    ELSE Append(srcs, found)

RECURSIVE AddAll(_, _)
AddAll(srcs, founds) ==
    IF founds = <<>> THEN srcs
    ELSE AddAll(AddSource(srcs, Head(founds)), Tail(founds))

Shift(founds, by) ==
    [k \in 1..Len(founds) |->
        [url |-> founds[k].url, position |-> founds[k].position + by]]

SectionLabels ==
    <<<<"s", "o", "u", "r", "c", "e", "s", ":">>,
      <<"r", "é", "f", "é", "r", "e", "n", "c", "e", "s", ":">>,
      <<"r", "e", "f", "e", "r", "e", "n", "c", "e", "s", ":">>>>

\* Step 3: the URLs of the 2000 characters that start at a section label.
RECURSIVE AddSections(_, _, _)
AddSections(srcs, text, n) ==
    IF n > Len(SectionLabels) THEN srcs
    ELSE LET idx == Find(LowerStr(text), SectionLabels[n], 0)
             tail == SubSeq(text, idx + 1, Min(Len(text), idx + 2000))
         IN AddSections(
                IF idx = -1 THEN srcs
                ELSE AddAll(srcs, Shift(UrlMatches(tail, 1), idx)),
                text, n + 1)

Max(a, b) == IF a >= b THEN a ELSE b

\* Step 4: for each [n] label, the first URL of the window around it.
RECURSIVE AddFootnotes(_, _, _)
AddFootnotes(srcs, text, labels) ==
    IF labels = <<>> THEN srcs
    ELSE LET window_start == Max(0, Head(labels).start - 200)
             window_end   == Min(Len(text), Head(labels).end + 400)
             window       == SubSeq(text, window_start + 1, window_end)
             urls         == UrlMatches(window, 1)
         IN AddFootnotes(
                IF urls = <<>> THEN srcs
                ELSE AddSource(srcs, Shift(<<Head(urls)>>, window_start)[1]),
                text, Tail(labels))

\* Variant: the dict order is returned as it is.
Unsorted(srcs) == srcs

\* sorted(..., key=position): a stable sort.
RECURSIVE SortedByPosition(_)
SortedByPosition(srcs) ==
    IF srcs = <<>> THEN <<>>
    ELSE LET rest == SortedByPosition(SubSeq(srcs, 1, Len(srcs) - 1))
             last == srcs[Len(srcs)]
             keep == Cardinality({k \in 1..Len(rest) :
                                     rest[k].position <= last.position})
         IN SubSeq(rest, 1, keep) \o <<last>> \o SubSeq(rest, keep + 1, Len(rest))

\* The dict `sources` after the four strategies, in insertion order.
found_sources(text) ==
    LET md       == AddAll(<<>>, MdMatches(text, 1))
        bare     == AddAll(md, UrlMatches(text, 1))
        sections == AddSections(bare, text, 1)
    IN AddFootnotes(sections, text, FootnoteMatches(text, 1))

\* SourceExtractor.extract
extract(text, max_items) ==
    IF Strip(text) = <<>> THEN <<>>
    ELSE LET ordered == SortedByPosition(found_sources(text))
         IN SubSeq(ordered, 1, Min(max_items, Len(ordered)))

\* max_items: its default, and two values small enough to cut the list.
MaxItemsChoices == {1, 2, 20}

\* Texts are up to MaxSourceParts of these parts laid end to end.
MaxSourceParts == 3

SourceParts ==
    {HTTP \o <<"x", " ">>,
     HTTP \o <<"y", " ">>,
     HTTP \o <<"y", ".", " ">>,
     <<"[", "t", "]", "(">> \o HTTP \o <<"x", ")", " ">>,
     <<"[", "1", "]", " ">>,
     <<"S", "o", "u", "r", "c", "e", "s", ":", " ">>}

RECURSIVE SourceTexts(_)
SourceTexts(n) ==
    IF n = 0 THEN {<<>>}
    ELSE SourceTexts(n - 1)
         \cup {t \o q : t \in SourceTexts(n - 1), q \in SourceParts}

Extract ==
    /\ extracted = NotCalled
    /\ \E max_items \in MaxItemsChoices :
          extracted' = [sources   |-> extract(source_text, max_items),
                        max_items |-> max_items]
    /\ UNCHANGED <<source_text, jobVars, execVars, renderVars, scoreVars,
                   rankVars, mentionVars,
                   openaiVars, classifyVars>>

SourceInit ==
    /\ JobInit
    /\ ExecIdle
    /\ RenderIdle
    /\ ScoreIdle
    /\ RankingIdle
    /\ MentionIdle
    /\ OpenAIIdle
    /\ ClassifyIdle
    /\ source_text \in SourceTexts(MaxSourceParts)
    /\ extracted = NotCalled

NextSources == Extract

SpecSources == SourceInit /\ [][NextSources]_vars

\* ============================================== providers: OpenAIProvider
\* OpenAIProvider.execute posts to the Responses endpoint for modern models
\* or when web search is switched on, retries there with gpt-4.1, and falls
\* back to chat.completions.  Model ids are sequences of characters.

GPT5 == <<"g", "p", "t", "-", "5">>

GPT41 == <<"g", "p", "t", "-", "4", ".", "1">>

O4 == <<"o", "4">>

GPT4O == <<"g", "p", "t", "-", "4", "o">>

Mini == <<"-", "m", "i", "n", "i">>

ModelIds ==
    {p \o s : p \in {GPT5, GPT41, O4, GPT4O}, s \in {<<>>, Mini}}

\* settings.OPENAI_API_KEY set or not, settings.OPENAI_WEB_SEARCH_ENABLED.
OpenAICalls ==
    [api_key : BOOLEAN, web_search_enabled : BOOLEAN, model_id : ModelIds]

prefer_responses(call) ==
    \/ call.web_search_enabled
    \/ \E p \in {GPT5, GPT41, O4} : StartsWith(call.model_id, p)

\* The 'tools' entry of the Responses payload.
ResponsesTools(call) ==
    IF call.web_search_enabled THEN {"web_search_preview"} ELSE {}

ResponsesRequest(call, model) ==
    [endpoint |-> "responses", model |-> model, tools |-> ResponsesTools(call)]

ChatRequest(call) ==
    [endpoint |-> "chat.completions", model |-> call.model_id, tools |-> {}]

\* What the API can answer: the call raises (network, body that is not
\* JSON), or a status with a body that carries output_text, text items
\* under output, choices, or nothing usable.
Replies ==
    {[raises |-> TRUE, status |-> 0, body |-> "none"]} \cup
    [raises : {FALSE}, status : {200, 500},
     body : {"output_text", "output_items", "choices", "empty"}]

\* The content read from a Responses body: output_text, else the joined
\* text items.
ResponsesContent(reply) ==
    reply.status = 200 /\ reply.body \in {"output_text", "output_items"}

\* The result built from a Responses answer, whatever tools were sent.
ResponsesResult(call, model) ==
    [web_search_used |-> TRUE, actual_model |-> model]

ChatResult(call) ==
    [web_search_used |-> FALSE, actual_model |-> call.model_id]

\* Up to the first post.
OpenAIStart ==
    /\ openai_pc = "start"
    /\ IF ~openai_call.api_key
       THEN /\ openai_pc' = "raised"
            /\ UNCHANGED openai_sent
       ELSE IF prefer_responses(openai_call)
       THEN /\ openai_pc' = "responses"
            /\ openai_sent' =
                 <<ResponsesRequest(openai_call, openai_call.model_id)>>
       ELSE /\ openai_pc' = "chat"
            /\ openai_sent' = <<ChatRequest(openai_call)>>
    /\ UNCHANGED <<openai_call, openai_result, jobVars, execVars, renderVars,
                   scoreVars, rankVars, mentionVars, sourceVars,
                   classifyVars>>

\* The first Responses post answers; an exception here is not caught.
ResponsesReply(reply) ==
    /\ openai_pc = "responses"
    /\ IF reply.raises
       THEN /\ openai_pc' = "raised"
            /\ UNCHANGED <<openai_sent, openai_result>>
       ELSE IF ResponsesContent(reply)
       THEN /\ openai_pc' = "returned"
            /\ openai_result' =
                 ResponsesResult(openai_call, openai_call.model_id)
            /\ UNCHANGED openai_sent
       ELSE /\ openai_pc' = "alt"
            /\ openai_sent' =
                 Append(openai_sent, ResponsesRequest(openai_call, GPT41))
            /\ UNCHANGED openai_result
    /\ UNCHANGED <<openai_call, jobVars, execVars, renderVars, scoreVars,
                   rankVars, mentionVars, sourceVars, classifyVars>>

\* The gpt-4.1 retry answers; its exceptions are swallowed.
AltReply(reply) ==
    /\ openai_pc = "alt"
    /\ IF ~reply.raises /\ ResponsesContent(reply)
       THEN /\ openai_pc' = "returned"
            /\ openai_result' = ResponsesResult(openai_call, GPT41)
            /\ UNCHANGED openai_sent
       ELSE /\ openai_pc' = "chat"
            /\ openai_sent' = Append(openai_sent, ChatRequest(openai_call))
            /\ UNCHANGED openai_result
    /\ UNCHANGED <<openai_call, jobVars, execVars, renderVars, scoreVars,
                   rankVars, mentionVars, sourceVars, classifyVars>>

\* chat.completions answers: anything but 200 raises, and so does a body
\* without choices.
ChatReply(reply) ==
    /\ openai_pc = "chat"
    /\ IF reply.raises \/ reply.status # 200 \/ reply.body # "choices"
       THEN /\ openai_pc' = "raised"
            /\ UNCHANGED openai_result
       ELSE /\ openai_pc' = "returned"
            /\ openai_result' = ChatResult(openai_call)
    /\ UNCHANGED <<openai_call, openai_sent, jobVars, execVars, renderVars,
                   scoreVars, rankVars, mentionVars, sourceVars,
                   classifyVars>>

OpenAIInit ==
    /\ JobInit
    /\ ExecIdle
    /\ RenderIdle
    /\ ScoreIdle
    /\ RankingIdle
    /\ MentionIdle
    /\ SourceIdle
    /\ ClassifyIdle
    /\ openai_call \in OpenAICalls
    /\ openai_pc = "start"
    /\ openai_sent = <<>>
    /\ openai_result = NotCalled

NextOpenAI ==
    \/ OpenAIStart
    \/ \E reply \in Replies : ResponsesReply(reply)
    \/ \E reply \in Replies : AltReply(reply)
    \/ \E reply \in Replies : ChatReply(reply)

SpecOpenAI == OpenAIInit /\ [][NextOpenAI]_vars

\* ============================================ nlp: AdvancedTopicsClassifier
\* classify_full runs six sub-analyses inside one try block.  The cleaned
\* text is followed through what the analyses read of it: keyword counts
\* per SEO intent, scores per content type, the topics found with their
\* relevance, and how many entities and semantic keywords it holds.
\* Confidences are counted in hundredths.

MaxCount == 1

\* SEO_INTENT_KEYWORDS in dictionary order, with twice the weight of each.
Intents == <<"commercial", "informational", "transactional", "navigational">>

TwiceWeight ==
    [commercial |-> 4, informational |-> 2, transactional |-> 3,
     navigational |-> 1]

\* The keys of content_patterns in dictionary order.
ContentTypes == <<"comparison", "tutorial", "review", "list", "technical">>

Range(seq) == {seq[i] : i \in DOMAIN seq}

\* The relevance of each topic _classify_business_topics returns.
TopicLists ==
    {<<>>, <<"high">>, <<"high", "low">>, <<"high", "high">>,
     <<"high", "medium", "high", "high">>}

EntityCounts == {0, 1, 7, 8}

KeywordCounts == {0, 2}

Occurrences ==
    [intent   : [Range(Intents) -> 0..MaxCount],
     content  : [Range(ContentTypes) -> 0..MaxCount],
     topics   : TopicLists,
     entities : EntityCounts,
     keywords : KeywordCounts]

RECURSIVE SumOver(_, _)
SumOver(f, keys) ==
    IF keys = <<>> THEN 0 ELSE f[Head(keys)] + SumOver(f, Tail(keys))

\* max(scores, key=scores.get): the first key, in dictionary order, that
\* holds the largest score.
ArgMax(f, keys) ==
    keys[CHOOSE i \in DOMAIN keys :
            /\ \A j \in DOMAIN keys : f[keys[j]] <= f[keys[i]]
            /\ \A j \in 1..(i - 1) : f[keys[j]] < f[keys[i]]]

\* round(num / den, 2) in hundredths.  On an exact tie the float that
\* stands for the quotient decides, so both neighbours are possible.
Round2(num, den) ==
    LET q == (100 * num) \div den
        r == (100 * num) % den
    IN  IF 2 * r < den THEN {q}
        ELSE IF 2 * r > den THEN {q + 1}
        ELSE {q, q + 1}

\* The main key and the confidences round(score / total, 2) can give, or
\* the fallback key with 0.1 when nothing scored.
MainAndConfidence(scores, keys, fallback) ==
    IF SumOver(scores, keys) = 0
    THEN {[main |-> fallback, confidence |-> 10]}
    ELSE {[main |-> ArgMax(scores, keys), confidence |-> c] :
            c \in Round2(scores[ArgMax(scores, keys)], SumOver(scores, keys))}

classify_seo_intent(occ) ==
    MainAndConfidence([i \in Range(Intents) |-> occ.intent[i] * TwiceWeight[i]],
                      Intents, "informational")

detect_content_type(occ) ==
    MainAndConfidence(occ.content, ContentTypes, "general")

\* Variant: the weighted sum is rounded and returned as it is.
UncappedConfidence(g) == g

\* min(1.0, .) on the rounded global confidence.
CapAtOne(g) == Min(100, g)

\* seo * 0.4 + content * 0.3 + business bonus + entities bonus, rounded to
\* two places and capped.
calculate_global_confidence(seo, business, content, entities) ==
    LET high_relevance_topics ==
            Cardinality({i \in DOMAIN business : business[i] = "high"})
        business_bonus == Min(30, high_relevance_topics * 15)
        entities_bonus == Min(20, entities * 3)
        ten_thousandths == seo.confidence * 40 + content.confidence * 30
                           + business_bonus * 100 + entities_bonus * 100
    IN  {CapAtOne(g) : g \in Round2(ten_thousandths, 10000)}

get_default_classification ==
    [seo_intent        |-> [main |-> "informational", confidence |-> 10],
     business_topics   |-> <<>>,
     content_type      |-> [main |-> "general", confidence |-> 10],
     sector_entities   |-> 0,
     semantic_keywords |-> 0,
     confidence        |-> 10]

NothingAnalysed ==
    [seo_intent        |-> NotCalled,
     business_topics   |-> <<>>,
     content_type      |-> NotCalled,
     sector_entities   |-> 0,
     semantic_keywords |-> 0,
     raised            |-> "nothing"]

\* The statement at `here` raises: control passes to the except clause.
Raises(here) ==
    /\ classify_pc = here
    /\ classify_pc' = "except"
    /\ analysed' = [analysed EXCEPT !.raised = here]
    /\ UNCHANGED <<occurrences, classification, jobVars, execVars, renderVars,
                   scoreVars, rankVars, mentionVars, sourceVars, openaiVars>>

\* The statement at `here` stores its value and control moves on.
Stores(here, next, held) ==
    /\ classify_pc = here
    /\ classify_pc' = next
    /\ analysed' = held
    /\ UNCHANGED <<occurrences, classification, jobVars, execVars, renderVars,
                   scoreVars, rankVars, mentionVars, sourceVars, openaiVars>>

Preprocess(ok) ==
    IF ok THEN Stores("preprocess", "seo_intent", analysed)
    ELSE Raises("preprocess")

ClassifySeoIntent(ok) ==
    IF ok
    THEN \E seo \in classify_seo_intent(occurrences) :
            Stores("seo_intent", "business_topics",
                   [analysed EXCEPT !.seo_intent = seo])
    ELSE Raises("seo_intent")

ClassifyBusinessTopics(ok) ==
    IF ok
    THEN Stores("business_topics", "content_type",
                [analysed EXCEPT !.business_topics = occurrences.topics])
    ELSE Raises("business_topics")

DetectContentType(ok) ==
    IF ok
    THEN \E content \in detect_content_type(occurrences) :
            Stores("content_type", "sector_entities",
                   [analysed EXCEPT !.content_type = content])
    ELSE Raises("content_type")

ExtractSectorEntities(ok) ==
    IF ok
    THEN Stores("sector_entities", "semantic_keywords",
                [analysed EXCEPT !.sector_entities = occurrences.entities])
    ELSE Raises("sector_entities")

ExtractSemanticKeywords(ok) ==
    IF ok
    THEN Stores("semantic_keywords", "confidence",
                [analysed EXCEPT !.semantic_keywords = occurrences.keywords])
    ELSE Raises("semantic_keywords")

\* Step 6 and the return of the assembled result.
GlobalConfidence(ok) ==
    IF ok
    THEN /\ classify_pc = "confidence"
         /\ classify_pc' = "returned"
         /\ \E g \in calculate_global_confidence(
                        analysed.seo_intent, analysed.business_topics,
                        analysed.content_type, analysed.sector_entities) :
               classification' =
                   [seo_intent        |-> analysed.seo_intent,
                    business_topics   |-> analysed.business_topics,
                    content_type      |-> analysed.content_type,
                    sector_entities   |-> analysed.sector_entities,
                    semantic_keywords |-> analysed.semantic_keywords,
                    confidence        |-> g]
         /\ UNCHANGED <<occurrences, analysed, jobVars, execVars, renderVars,
                        scoreVars, rankVars, mentionVars, sourceVars,
                        openaiVars>>
    ELSE Raises("confidence")

\* Variant: the except clause logs and raises again.
ExceptReraises ==
    /\ classify_pc = "except"
    /\ classify_pc' = "raised"
    /\ UNCHANGED <<occurrences, analysed, classification, jobVars, execVars,
                   renderVars, scoreVars, rankVars, mentionVars, sourceVars,
                   openaiVars>>

\* except Exception: log and return the default classification.
ClassifyExcept ==
    /\ classify_pc = "except"
    /\ classify_pc' = "returned"
    /\ classification' = get_default_classification
    /\ UNCHANGED <<occurrences, analysed, jobVars, execVars, renderVars,
                   scoreVars, rankVars, mentionVars, sourceVars, openaiVars>>

ClassifyInit ==
    /\ JobInit
    /\ ExecIdle
    /\ RenderIdle
    /\ ScoreIdle
    /\ RankingIdle
    /\ MentionIdle
    /\ SourceIdle
    /\ OpenAIIdle
    /\ occurrences \in Occurrences
    /\ classify_pc = "preprocess"
    /\ analysed = NothingAnalysed
    /\ classification = NotCalled

NextClassify ==
    \/ \E ok \in BOOLEAN : Preprocess(ok)
    \/ \E ok \in BOOLEAN : ClassifySeoIntent(ok)
    \/ \E ok \in BOOLEAN : ClassifyBusinessTopics(ok)
    \/ \E ok \in BOOLEAN : DetectContentType(ok)
    \/ \E ok \in BOOLEAN : ExtractSectorEntities(ok)
    \/ \E ok \in BOOLEAN : ExtractSemanticKeywords(ok)
    \/ \E ok \in BOOLEAN : GlobalConfidence(ok)
    \/ ClassifyExcept

SpecClassify == ClassifyInit /\ [][NextClassify]_vars

\* ================================================================ claims
TotalOf(r) == Cardinality(ActivePrompts(runners[r].project))

Failed(r, i) == items[r][i].outcome \in {"failure", "raised"}

\* Provider calls pending in the whole process.
PendingCalls ==
    orphans
    + Cardinality({c \in RunnerIds \X PromptIds \X (1..(MaxModels + 1)) :
                     c[3] <= items[c[1]][c[2]].pending})

\* Models of the prompts whose execution has started.
ModelsStarted ==
    Cardinality({c \in RunnerIds \X PromptIds \X (1..(MaxModels + 1)) :
                   /\ items[c[1]][c[2]].pc \notin {"none", "waiting"}
                   /\ c[3] <= ModelsOf(runners[c[1]].project, c[2])})

\* C1: every status read of a job shows
\* success_count + error_count = processed_items.
C1_CountsMatchProcessed ==
    \A j \in JobIds :
        get_job_status(j).success_count + get_job_status(j).error_count
            = get_job_status(j).processed_items

\* C2: the job id returned by POST /execute-all names the job that runs the
\* batch: once the batch is over, a status read of that id shows
\* total_items = number of active prompts and a terminal status.
C2_HandleRunsBatch ==
    \A r \in RunnerIds :
        runners[r].pc = "done" =>
            /\ get_job_status(runners[r].handle).status = "completed"
            /\ get_job_status(runners[r].handle).total_items = TotalOf(r)

\* C3: once the prompt set of a job is loaded, the job eventually has
\* processed_items = N and status completed, whatever the executions return.
C3_EventuallyCompleted ==
    \A r \in 1..MaxSubmits :
        (r \in RunnerIds /\ runners[r].pc = "loaded")
            ~> (/\ r \in RunnerIds
                /\ runners[r].pc = "done"
                /\ jobs[JobOf(r)].status = "completed"
                /\ jobs[JobOf(r)].processed_items = TotalOf(r))

C3_Witness ==
    \E r \in RunnerIds :
        /\ runners[r].pc = "done"
        /\ TotalOf(r) = MaxPrompts
        /\ jobs[JobOf(r)].status = "completed"
        /\ jobs[JobOf(r)].processed_items = TotalOf(r)
        /\ jobs[JobOf(r)].error_count = TotalOf(r)

\* C4: at most 2 prompt executions are in flight at any instant, counted
\* over all jobs.
C4_AtMostTwoInFlight == Cardinality(InFlight) <= 2

C4_Witness ==
    /\ Cardinality(InFlight) = 2
    /\ \E a \in InFlight : \E b \in InFlight : a[1] # b[1]
    /\ \E r \in RunnerIds : \E i \in PromptIds : items[r][i].pc = "waiting"

\* C5 as stated: at most 2 provider calls are pending at any instant.
C5_AtMostTwoProviderCalls == PendingCalls <= 2

\* C5 amended: the cap bounds executions, not provider calls.  At most one
\* call per selected model of every started execution is pending, so at
\* most 2 calls are pending when every submitted project holds single-model
\* prompts only.
C5_PendingCallsBounded ==
    /\ PendingCalls <= ModelsStarted
    /\ (\A r \in RunnerIds : \A i \in ActivePrompts(runners[r].project) :
            ModelsOf(runners[r].project, i) = 1)
         => PendingCalls <= 2

C5_Witness ==
    /\ \A r \in RunnerIds : runners[r].project = "mono"
    /\ PendingCalls = 2
    /\ \E r \in RunnerIds : \E i \in PromptIds : items[r][i].pc = "waiting"

\* C6: a failed item costs the batch nothing but itself: it adds 1 to
\* error_count, one string to errors and 1 to processed_items, every active
\* prompt gets its item, and the job completes only when all are processed.
C6_FailureIsolated ==
    \A r \in RunnerIds :
        runners[r].pc \in {"gathering", "done"} =>
            /\ TotalOf(r) > 0 => ItemsOf(r) = ActivePrompts(runners[r].project)
            /\ jobs[JobOf(r)].error_count =
                 Cardinality({i \in ItemsOf(r) :
                    Failed(r, i) /\ items[r][i].pc \in {"counted", "logged", "done"}})
            /\ Len(jobs[JobOf(r)].errors) =
                 Cardinality({i \in ItemsOf(r) :
                    Failed(r, i) /\ items[r][i].pc \in {"logged", "done"}})
            /\ jobs[JobOf(r)].processed_items =
                 Cardinality({i \in ItemsOf(r) : items[r][i].pc = "done"})
            /\ jobs[JobOf(r)].status = "completed" =>
                 \A i \in ItemsOf(r) : items[r][i].pc = "done"

C6_Witness ==
    \E r \in RunnerIds :
        /\ runners[r].pc = "done"
        /\ jobs[JobOf(r)].status = "completed"
        /\ \E i \in ItemsOf(r) : items[r][i].outcome = "raised"
        /\ \E i \in ItemsOf(r) : items[r][i].outcome = "success"
        /\ jobs[JobOf(r)].error_count = 1
        /\ Len(jobs[JobOf(r)].errors) = 1
        /\ jobs[JobOf(r)].processed_items = 2

\* C7: a completed job has processed_items = total_items.
C7_CompletedMeansAllProcessed ==
    \A j \in JobIds :
        jobs[j].status = "completed" =>
            jobs[j].processed_items = jobs[j].total_items

C7_Witness ==
    \E j \in JobIds :
        /\ jobs[j].status = "completed"
        /\ jobs[j].total_items = MaxPrompts
        /\ jobs[j].error_count > 0

\* C8 as stated: while a job is queued or running, processed_items differs
\* from total_items.
C8_EqualOnlyWhenTerminal ==
    \A j \in JobIds :
        jobs[j].status \in {"queued", "running"} =>
            jobs[j].processed_items # jobs[j].total_items

\* C8 amended: processed_items never exceeds total_items and stays below
\* it while an item of the job is unprocessed; a queued or running job shows
\* equality only with total_items still 0 or with every item processed.
C8_BelowTotalWhileWorkRemains ==
    /\ \A j \in JobIds : jobs[j].processed_items <= jobs[j].total_items
    /\ \A r \in RunnerIds :
         (\E i \in ItemsOf(r) : items[r][i].pc # "done") =>
             jobs[JobOf(r)].processed_items < jobs[JobOf(r)].total_items
    /\ \A j \in JobIds :
         (/\ jobs[j].status \in {"queued", "running"}
          /\ jobs[j].processed_items = jobs[j].total_items)
             => \/ jobs[j].total_items = 0
                \/ \E r \in RunnerIds : JobOf(r) = j /\ GatherDone(r)

C8_Witness ==
    \E r \in RunnerIds :
        /\ runners[r].pc = "gathering"
        /\ jobs[JobOf(r)].status = "running"
        /\ jobs[JobOf(r)].total_items > 0
        /\ jobs[JobOf(r)].processed_items = jobs[JobOf(r)].total_items

\* C9: a job's status only ever changes queued -> running or
\* running -> completed, and no job is failed or canceled.
C9_StatusTransitions ==
    /\ [](\A j \in JobIds : jobs[j].status \in {"queued", "running", "completed"})
    /\ [][\A j \in JobIds :
            jobs'[j].status # jobs[j].status =>
                <<jobs[j].status, jobs'[j].status>> \in
                    {<<"queued", "running">>, <<"running", "completed">>}]_vars

C9_Witness ==
    /\ \E j \in JobIds : jobs[j].status = "completed" /\ jobs[j].total_items = 0
    /\ \E j \in JobIds :
         /\ jobs[j].status = "completed"
         /\ jobs[j].error_count = jobs[j].total_items
         /\ jobs[j].total_items > 0

\* C10: when the provider call of one selected model fails, the request
\* fails and no analysis row is persisted for any model of the request.
C10_ProviderFailureAbortsRequest ==
    (\E m \in DOMAIN xcalls : xcalls[m] = "failed") =>
        /\ xdb.analyses = <<>>
        /\ xpc # "persisting"
        /\ xpc = "returned" => ~xresult.success

C10_Witness ==
    /\ xpc = "returned"
    /\ ~xresult.success
    /\ \E m \in DOMAIN xcalls : xcalls[m] = "failed"
    /\ \E m \in DOMAIN xcalls : xcalls[m] = "ok"
    /\ xdb.analyses = <<>>

\* C11: execute_prompt_analysis never raises into its caller: a request
\* that fails (prompt not found, inactive, no eligible model, render,
\* provider or persistence failure) returns a result with success = false.
C11_NoExceptionCrosses ==
    /\ xpc # "raised"
    /\ (xpc = "returned" /\ xdb.execution_count = 0) => ~xresult.success

\* C12: the analyses returned by a successful request, and the analysis rows
\* it persisted, follow the order of the selected models, whatever order the
\* provider calls completed in.
C12_ResultsInRequestOrder ==
    /\ xpc \in {"persisting", "returned"} =>
         /\ Len(xdb.analyses) <= Len(SelectedModels(xreq))
         /\ \A k \in 1..Len(xdb.analyses) :
                xdb.analyses[k].model = SelectedModels(xreq)[k]
    /\ (xpc = "returned" /\ xresult.success) =>
         /\ xresult.analyses = SelectedModels(xreq)
         /\ Len(xdb.analyses) = Len(SelectedModels(xreq))

C12_Witness ==
    /\ xpc = "returned"
    /\ xresult.success
    /\ Len(SelectedModels(xreq)) = MaxModels
    /\ xdone = [k \in 1..MaxModels |-> SelectedModels(xreq)[MaxModels + 1 - k]]
    /\ xresult.analyses = SelectedModels(xreq)

\* The union of the override and the context variables.
Supplied == DOMAIN project_variables \cup DOMAIN custom_variables

\* C13: rendering fails and reports the missing names whenever a referenced
\* identifier has no value in the override or the context variables, and a
\* name present in both is resolved to the override value.
C13_MissingReportedOverrideWins ==
    substitution_result # NotCalled =>
        /\ extract_variables(template) \ Supplied # {} =>
             /\ ~substitution_result.success
             /\ substitution_result.error = "missing"
             /\ substitution_result.missing_variables =
                   extract_variables(template) \ Supplied
        /\ substitution_result.success =>
             \A n \in extract_variables(template) \cap DOMAIN custom_variables :
                 substitution_result.variables_used[n] = custom_variables[n]

C13_Witness ==
    /\ substitution_result # NotCalled
    /\ ~substitution_result.success
    /\ extract_variables(template) = Names
    /\ <<"a">> \in DOMAIN project_variables \cap DOMAIN custom_variables
    /\ substitution_result.missing_variables = {<<"b">>}

\* A {...} token whose content is not an identifier.
HasInvalidToken(t) ==
    \E i \in 1..Len(t) : \E j \in (i + 1)..Len(t) :
        /\ t[i] = "{"
        /\ t[j] = "}"
        /\ \A k \in (i + 1)..(j - 1) : t[k] \notin {"{", "}"}
        /\ ~IsIdentifier(SubSeq(t, i + 1, j - 1))

Malformed(t) == HasInvalidToken(t) \/ Count(t, "{") # Count(t, "}")

\* C14: rendering a template with an invalid {...} token or unbalanced
\* braces fails with a malformed-variable error and yields no prompt.
C14_MalformedTemplateFails ==
    (substitution_result # NotCalled /\ Malformed(template)) =>
        /\ ~substitution_result.success
        /\ substitution_result.error = "malformed"

\* Every {name} placeholder of the template replaced at once, the values
\* being pasted in without a second look.
RECURSIVE Simultaneous(_, _)
Simultaneous(t, all) ==
    IF t = <<>> THEN <<>>
    ELSE LET hits == {n \in DOMAIN all :
                        /\ IsIdentifier(n)
                        /\ StartsWith(t, <<"{">> \o n \o <<"}">>)}
         IN IF hits = {} THEN <<Head(t)>> \o Simultaneous(Tail(t), all)
            ELSE LET n == CHOOSE h \in hits : TRUE
                 IN all[n] \o Simultaneous(SubSeq(t, Len(n) + 3, Len(t)), all)

\* C15: a successful rendering returns the template with every placeholder
\* replaced simultaneously by its value, and variables_used maps exactly the
\* referenced names to their values, whatever the substitution order.
C15_SimultaneousSubstitution ==
    (substitution_result # NotCalled /\ substitution_result.success) =>
        /\ substitution_result.prompt =
              Simultaneous(template,
                           AllVariables(project_variables, custom_variables))
        /\ substitution_result.variables_used =
              [n \in extract_variables(template) |->
                  AllVariables(project_variables, custom_variables)[n]]

Points(flag, n) == IF flag THEN n ELSE 0

\* C16: for a ranking position in 1..10 or none, visibility_score =
\* min(100, 30*brand + 25*website + 35*linked + bonus), the bonus being 10
\* for position 1, 7 for 2-3, 5 for 4-5, 3 for 6-10 and 0 for none; all
\* flags with position 1 give 100 and nothing at all gives 0.
C16_ScoreFormula ==
    (scored # NotCalled /\ signals.position \in {NoPosition} \cup (1..10)) =>
        /\ scored.visibility_score =
              Min(100,
                  Points(signals.brand_mentioned, 30)
                  + Points(signals.website_mentioned, 25)
                  + Points(signals.website_linked, 35)
                  + (CASE signals.position = 1 -> 10
                       [] signals.position \in 2..3 -> 7
                       [] signals.position \in 4..5 -> 5
                       [] signals.position \in 6..10 -> 3
                       [] signals.position = NoPosition -> 0))
        /\ (/\ signals.brand_mentioned
            /\ signals.website_mentioned
            /\ signals.website_linked
            /\ signals.position = 1) => scored.visibility_score = 100
        /\ (/\ ~signals.brand_mentioned
            /\ ~signals.website_mentioned
            /\ ~signals.website_linked
            /\ signals.position = NoPosition) => scored.visibility_score = 0

C16_Witness ==
    /\ scored # NotCalled
    /\ signals.brand_mentioned
    /\ signals.website_mentioned
    /\ signals.website_linked
    /\ signals.position = 1
    /\ scored.visibility_score = 100

\* w is s made worse in one input: a flag turned off, the position lost, or
\* a larger position number.
OneStepWorse(w, s) ==
    \/ \E f \in {"brand_mentioned", "website_mentioned", "website_linked"} :
          s[f] /\ w = [s EXCEPT ![f] = FALSE]
    \/ /\ s.position # NoPosition
       /\ \/ w = [s EXCEPT !.position = NoPosition]
          \/ \E p \in Positions : p > s.position /\ w = [s EXCEPT !.position = p]

\* C17: visibility_score lies in 0..100 and is no lower than the score of
\* any input that is one step worse (one flag off, no position where there
\* was one, or a larger position number).
C17_ScoreBoundedMonotone ==
    scored # NotCalled =>
        /\ scored.visibility_score \in 0..100
        /\ \A w \in Signals :
              OneStepWorse(w, signals) =>
                  calculate_visibility_score(w) <= scored.visibility_score

\* C18: ranking_position is null or an integer in 1..10, and it is non-null
\* only when the list item it comes from holds both the project name and a
\* hyperlink.
C18_PositionFromLinkedItem ==
    ranking_analysis # NotCalled =>
        \/ ranking_analysis.position = NoPosition
        \/ /\ ranking_analysis.position \in 1..10
           /\ Contains(LowerStr(ranking_analysis.context),
                       LowerStr(ranking_input.name))
           /\ HasUrl(ranking_analysis.context)

\* The occurrences of a non-empty needle in a text, none overlapping
\* another, counted from the left.
RECURSIVE NonOverlapping(_, _)
NonOverlapping(text, needle) ==
    IF Len(text) < Len(needle) THEN 0
    ELSE IF StartsWith(text, needle)
    THEN 1 + NonOverlapping(SubSeq(text, Len(needle) + 1, Len(text)), needle)
    ELSE NonOverlapping(Tail(text), needle)

\* C19: the mention counts of the brand name, of the website domain and of
\* each competitor name are the numbers of non-overlapping occurrences of
\* the string in the answer, letter case ignored.
C19_NonOverlappingCounts ==
    mention_analysis # NotCalled =>
        LET text_lower == LowerStr(mention_input.text)
        IN /\ mention_analysis.brand.mentions_count =
                 NonOverlapping(text_lower, LowerStr(mention_input.name))
           /\ Domain(mention_input.main_website) # <<>> =>
                 mention_analysis.website.mentions_count =
                     NonOverlapping(text_lower,
                                    Domain(mention_input.main_website))
           /\ \A k \in 1..Len(mention_input.competitors) :
                 LET c == mention_input.competitors[k]
                 IN (IF c \in DOMAIN mention_analysis.competitors
                     THEN mention_analysis.competitors[c] ELSE 0)
                        = NonOverlapping(text_lower, LowerStr(c))

\* C20: every source in the output of extract carries a position no later
\* than the first place its URL occurs in the text, whichever strategy
\* found it, and the output lists the URLs in the order of their first
\* occurrence.
C20_EarliestPositionFirstSeenOrder ==
    extracted # NotCalled =>
        /\ \A k \in 1..Len(extracted.sources) :
              extracted.sources[k].position
                  <= Find(source_text, extracted.sources[k].url, 0)
        /\ \A k \in 1..Len(extracted.sources) :
              \A l \in (k + 1)..Len(extracted.sources) :
                  Find(source_text, extracted.sources[k].url, 0)
                      < Find(source_text, extracted.sources[l].url, 0)

\* C21: the list returned by extract holds each URL at most once, is sorted
\* by non-decreasing position and has at most max_items entries, which are
\* the max_items sources of smallest position among all those found.
C21_UniqueSortedTruncated ==
    extracted # NotCalled =>
        LET out   == extracted.sources
            found == found_sources(source_text)
        IN /\ \A k \in 1..Len(out) : \A l \in 1..Len(out) :
                 out[k].url = out[l].url => k = l
           /\ \A k \in 1..Len(out) : \A l \in (k + 1)..Len(out) :
                 out[k].position <= out[l].position
           /\ Len(out) <= extracted.max_items
           /\ Len(out) = Min(extracted.max_items, Len(found))
           /\ \A k \in 1..Len(out) : \E f \in 1..Len(found) : found[f] = out[k]
           /\ \A f \in 1..Len(found) :
                 (\A k \in 1..Len(out) : out[k] # found[f]) =>
                     \A k \in 1..Len(out) : out[k].position <= found[f].position

C21_Witness ==
    /\ extracted # NotCalled
    /\ extracted.max_items = 1
    /\ Len(extracted.sources) = 1
    /\ Len(found_sources(source_text)) = 2
    /\ found_sources(source_text)[1].position
          > found_sources(source_text)[2].position
    /\ extracted.sources[1] = found_sources(source_text)[2]

\* C22: a result of OpenAIProvider.execute says web_search_used exactly when
\* the request that produced its content carried the web-search tool.
C22_WebSearchFlagMatchesTools ==
    openai_pc = "returned" =>
        (openai_result.web_search_used <=>
            "web_search_preview" \in openai_sent[Len(openai_sent)].tools)

\* C23: the SEO-intent, content-type and global confidences of every
\* classification classify_full returns lie between 0 and 1.
C23_ConfidencesInUnitInterval ==
    classify_pc = "returned" =>
        /\ classification.seo_intent.confidence \in 0..100
        /\ classification.content_type.confidence \in 0..100
        /\ classification.confidence \in 0..100

\* An analysed classification whose weighted sum exceeded 1 before the cap.
C23_Witness ==
    /\ classify_pc = "returned"
    /\ analysed.raised = "nothing"
    /\ classification.seo_intent.confidence = 100
    /\ classification.content_type.confidence = 100
    /\ Cardinality({i \in DOMAIN classification.business_topics :
                      classification.business_topics[i] = "high"}) >= 2
    /\ classification.sector_entities >= 7
    /\ classification.confidence = 100

\* C24: classify_full always returns, and after a failing sub-analysis what
\* it returns is informational at 0.1, general, no topics, entities or
\* keywords, and a global confidence of 0.1.
C24_FailureYieldsDefault ==
    /\ classify_pc # "raised"
    /\ (classify_pc = "returned" /\ analysed.raised # "nothing") =>
          /\ classification.seo_intent.main = "informational"
          /\ classification.seo_intent.confidence = 10
          /\ classification.content_type.main = "general"
          /\ classification.business_topics = <<>>
          /\ classification.sector_entities = 0
          /\ classification.semantic_keywords = 0
          /\ classification.confidence = 10

\* The last step fails after every analysis found something.
C24_Witness ==
    /\ classify_pc = "returned"
    /\ analysed.raised = "confidence"
    /\ analysed.seo_intent.main = "commercial"
    /\ analysed.business_topics # <<>>
    /\ analysed.sector_entities > 0
    /\ classification = get_default_classification

\* C25: two prompt executions that run at the same time never use the same
\* persistence session.
C25_NoSharedSession ==
    \A a, b \in Executing :
        a # b => SessionOf(a[1], a[2]) # SessionOf(b[1], b[2])

\* The calls of the request that reach a provider: ai_service passes on
\* only those for an active model.
ProviderCallsIssued == {m \in DOMAIN xcalls : ModelCallable(xreq, m)}

\* C26: a provider is called only for a prompt that exists and is active,
\* with an active model resolved for it and its template rendered; a request
\* that fails validation or rendering makes no provider call.
C26_CallsOnlyAfterValidation ==
    ProviderCallsIssued # {} =>
        /\ xreq.exists
        /\ xreq.is_active
        /\ xreq.render_ok
        /\ IF xreq.is_multi_agent
           THEN xreq.n_active_models >= 1
           ELSE xreq.ai_model = "active"

\* A comparison run of a single-model prompt has called its provider.
C26_Witness ==
    /\ xpc = "calling"
    /\ ~xreq.is_multi_agent
    /\ xreq.compare_models
    /\ ProviderCallsIssued # {}

\* The job run_project_prompts created has been set running.
Started(r) ==
    r \in RunnerIds /\ runners[r].pc \notin {"spawned", "created"}

\* An exception left run_project_prompts outside run_one's handler.
Escaped(r) == r \in RunnerIds /\ runners[r].pc = "crashed"

NoWork(r) == TotalOf(r) = 0

HasCompleted(r) == Started(r) /\ jobs[JobOf(r)].status = "completed"

\* C27 as stated: a started job stays running for ever when its project has
\* no active prompt or when an exception escapes the controller, and
\* reaches completed in every other case.
C27_StuckWhenEmptyOrEscaped ==
    \A r \in 1..MaxSubmits :
        /\ []((Started(r) /\ (NoWork(r) \/ Escaped(r)))
                 => jobs[JobOf(r)].status = "running")
        /\ (Started(r) /\ ~NoWork(r))
              ~> (Escaped(r) \/ HasCompleted(r))

\* C27 amended: a started job stays running for ever only when an exception
\* escapes the controller; otherwise, a project without active prompts
\* included, it reaches completed.
C27_StuckOnlyWhenEscaped ==
    \A r \in 1..MaxSubmits :
        /\ [](Escaped(r) => jobs[JobOf(r)].status = "running")
        /\ Started(r)
              ~> (Escaped(r) \/ HasCompleted(r))

\* One job is stuck after its loading raised, another has completed with
\* nothing to do.
C27_Witness ==
    /\ \E r \in RunnerIds :
          Escaped(r) /\ jobs[JobOf(r)].status = "running"
    /\ \E r \in RunnerIds :
          /\ runners[r].pc = "done"
          /\ NoWork(r)
          /\ jobs[JobOf(r)].status = "completed"

\* The models of the request that have an analysis row.
PersistedModels == {xdb.analyses[k].model : k \in DOMAIN xdb.analyses}

AllPersisted ==
    /\ Len(xdb.analyses) = Len(SelectedModels(xreq))
    /\ PersistedModels = DOMAIN xcalls

C29_FailureLeavesNoTrace ==
    (xpc = "returned" /\ ~xresult.success) => xdb = EmptyDb

\* C30: each permit taken for an execution is held by an execution in
\* flight or has been given back, so both permits are free whenever nothing
\* is in flight, and an item waiting for a permit always gets to start.
C30_PermitsNeverLeaked ==
    /\ [](permits + Cardinality(InFlight) = SemaphorePermits)
    /\ [](InFlight = {} => permits = SemaphorePermits)
    /\ \A r \in 1..MaxSubmits : \A i \in PromptIds :
          (items[r][i].pc = "waiting") ~> (items[r][i].pc # "waiting")

\* An execution has raised and finished, nothing is in flight, both permits
\* are free and the items of a later job wait to start.
C30_Witness ==
    /\ InFlight = {}
    /\ permits = SemaphorePermits
    /\ \E r \in RunnerIds : \E i \in PromptIds :
          /\ items[r][i].pc = "done"
          /\ items[r][i].outcome = "raised"
          /\ \E q \in RunnerIds : \E k \in PromptIds :
                q > r /\ items[q][k].pc = "waiting"

====
